---- MODULE Spec2Model ----
(***************************************************************************)
(* A model of the semantic chunking core of the GTI SOP Assistant:         *)
(* EnhancedDocxProcessor (api/docx-processor.js, here src/unnamed/part_000)*)
(* and the handler that drives it (src/api/semantic-chunking.js), with the *)
(* uploads to GitHub of that handler and of src/api/upload-chunks-github.js*)
(* and the saved state of GoogleDocsSync (src/public/googleDocsSync.js).   *)
(*                                                                         *)
(* A chunk text is the sequence of its words, separators and placeholder   *)
(* tokens, each a string, so that lengths, token counts and word-aligned   *)
(* prefixes and suffixes are computed from the characters of the source.   *)
(***************************************************************************)
EXTENDS Integers, Sequences, FiniteSets, TLC

VARIABLES
  options,      \* the options object given to new EnhancedDocxProcessor(...)
  elements,     \* the element stream of the document / the argument of the helpers
  processor,    \* the fields of the EnhancedDocxProcessor instance
  imagesDir,    \* the files of <outputDir>/images: a set of [name, content]
  runs,         \* what each processDocument call so far returned, oldest first
  grouped,      \* what the last groupConsecutiveImages call returned
  included,     \* what the last shouldIncludeImage call was given and returned
  inserted,     \* what the last insertImagePlaceholder call was given and returned
  sync,         \* the fields of the GoogleDocsSync instance of the page
  localStorage, \* the item 'googleDocsSync' of the browser's localStorage
  inFlight,     \* how many requests of the page have not settled: sync, drive
  buttons,      \* the disabled attributes of the buttons of the page
  notification, \* the text of the notification element of the page
  calls,        \* the last two state methods called on GoogleDocsSync instances
  beforeSave,   \* the fields of the instance when saveSyncState was last called
  env,          \* process.env of the serverless functions: GITHUB_TOKEN, GITHUB_REPO
  remote,       \* the files of the GitHub repository: a set of [path, content]
  chunksFile,   \* semantic_output/semantic_chunks.json on the local disk
  requests,     \* the requests the running handler has issued to GitHub, oldest first
  run,          \* the handler invocation: endpoint, position, response, uploads to do
  lastUpload,   \* the last uploadFileToGitHub call: what its GET found, what it PUT
  docsSync      \* the invocation of the google-docs-sync handler: position, response

processorVars == <<options, elements, processor, imagesDir, runs, grouped, included>>
insertVars == <<inserted>>
syncVars == <<sync, localStorage, inFlight, buttons, notification, calls, beforeSave>>
handlerVars == <<env, remote, chunksFile, requests, run, lastUpload>>

docsSyncVars == <<docsSync>>

vars == <<processorVars, insertVars, syncVars, handlerVars, docsSyncVars>>

\* the variables the actions of one part of the program leave alone
outsideProcessor == <<insertVars, syncVars, handlerVars, docsSyncVars>>
outsideInsert == <<processorVars, syncVars, handlerVars, docsSyncVars>>
outsideSync == <<processorVars, insertVars, handlerVars, docsSyncVars>>
outsideHandlers == <<insertVars, syncVars, docsSyncVars>>
outsideDocsSync == <<processorVars, insertVars, syncVars, handlerVars>>

\* ------------------------------------------------------------------ bounds

MaxDocLen == 2      \* longest document element stream of the processor runs
MaxLen == 4         \* longest element stream given to groupConsecutiveImages
MaxRuns == 2        \* processDocument calls in one behaviour
MaxPlaceholder == 12 \* largest N of an [IMAGE_PLACEHOLDER_N] token that is recognised
MaxTextLen == 4     \* longest text, in characters, given to insertImagePlaceholder
MaxImageNumber == 2 \* largest image number given to insertImagePlaceholder
MaxInvocations == 2 \* handler invocations in one behaviour
MaxInFlight == 2    \* requests of one kind a page may have in flight

\* ------------------------------------------------------- program constants

DefaultTargetChunkSize == 800
DefaultMaxChunkSize == 1200
DefaultOverlapSize == 150
minChunkSize == 300
ExampleImageCount == 11
NextAvailableImageNumber == 12

\* the jurisdiction codes and the order-type codes of the context detection patterns
StateCodes == {"OH", "MD", "NJ", "IL", "NY", "NV", "MA"}
SectionCodes == {"RISE", "REGULAR", "GENERAL"}

\* ------------------------------------------------------------ text helpers

RECURSIVE RangeLength(_, _, _)
\* the characters of the tokens lo..hi of a text
RangeLength(text, lo, hi) ==
  IF lo > hi THEN 0
  ELSE IF lo = hi THEN Len(text[lo])
  ELSE LET mid == (lo + hi) \div 2
       IN RangeLength(text, lo, mid) + RangeLength(text, mid + 1, hi)

\* text.length: the characters of all tokens
TextLength(text) == RangeLength(text, 1, Len(text))

\* the token `[IMAGE_PLACEHOLDER_${imageNumber}]`
Placeholder(imageNumber) == "[IMAGE_PLACEHOLDER_" \o ToString(imageNumber) \o "]"

\* the placeholder tokens of the numbers that are recognised
PlaceholderTokens == [n \in 0..MaxPlaceholder |-> Placeholder(n)]

\* a token that /\[IMAGE_PLACEHOLDER_\d+\]/ matches
IsPlaceholder(token) == \E n \in 0..MaxPlaceholder : token = PlaceholderTokens[n]

\* the N of a placeholder token
PlaceholderNumber(token) == CHOOSE n \in 0..MaxPlaceholder : token = PlaceholderTokens[n]

IsSeparator(token) == token \in {" ", "\n\n"}

\* chunk.text.match(/\[IMAGE_PLACEHOLDER_\d+\]/g): the matches, left to right
PlaceholderMatches(text) == SelectSeq(text, IsPlaceholder)

\* ----------------------------------------------------- the example dataset

\* chunk 0: its text, as the sequence of its words, separators and placeholder tokens
ExampleText0 ==
  <<
    "OHIO", " ", "RISE", " ", "ORDERS", "\n\n", "Special", " ", "pricing", " ", "and", " ",
    "delivery", " ", "requirements", " ", "for", " ", "Ohio", " ", "RISE", " ",
    "dispensaries.", " ", "Order", " ", "processing", " ", "follows", " ", "specific", " ",
    "guidelines", " ", "for", " ", "internal", " ", "stores.", "\n\n", "PRICING:", " ", "Use",
    " ", "special", " ", "RISE", " ", "pricing", " ", "structure", " ", "with", " ", "20%",
    " ", "internal", " ", "discount.", " ", "[IMAGE_PLACEHOLDER_1]", "\n\n", "Always", " ",
    "verify", " ", "pricing", " ", "with", " ", "sales", " ", "team", " ", "before", " ",
    "processing.", " ", "The", " ", "discount", " ", "verification", " ", "form", " ", "shows",
    " ", "the", " ", "standard", " ", "process.", " ", "[IMAGE_PLACEHOLDER_2]", "\n\n",
    "DELIVERY", " ", "SCHEDULE:", " ", "RISE", " ", "orders", " ", "are", " ", "processed",
    " ", "on", " ", "Tuesdays", " ", "and", " ", "Thursdays.", " ", "[IMAGE_PLACEHOLDER_3]",
    " ", "[IMAGE_PLACEHOLDER_4]", "\n\n", "The", " ", "delivery", " ", "calendar", " ",
    "shows", " ", "available", " ", "time", " ", "slots", " ", "and", " ", "special", " ",
    "requirements", " ", "for", " ", "internal", " ", "deliveries."
  >>

ExampleImages0 ==
  <<
    [ filename |-> "image_1.png",
      path |-> "semantic_output/images/image_1.png",
      label |-> "Image 1: Ohio RISE pricing structure",
      number |-> 1,
      context_text |-> "PRICING: Use special RISE pricing structure with 20% internal discount.",
      state |-> "OH",
      section |-> "RISE",
      topic |-> "PRICING",
      position_in_text |-> "after_sentence" ],
    [ filename |-> "image_2.png",
      path |-> "semantic_output/images/image_2.png",
      label |-> "Image 2: Discount verification form",
      number |-> 2,
      context_text |-> "Always verify pricing with sales team before processing.",
      state |-> "OH",
      section |-> "RISE",
      topic |-> "PRICING",
      position_in_text |-> "after_sentence" ],
    [ filename |-> "image_3.png",
      path |-> "semantic_output/images/image_3.png",
      label |-> "Image 3: Delivery schedule template",
      number |-> 3,
      context_text |-> "DELIVERY SCHEDULE: RISE orders are processed on Tuesdays and Thursdays.",
      state |-> "OH",
      section |-> "RISE",
      topic |-> "DELIVERY_DATE",
      position_in_text |-> "consecutive_after" ],
    [ filename |-> "image_4.png",
      path |-> "semantic_output/images/image_4.png",
      label |-> "Image 4: Time slot calendar",
      number |-> 4,
      context_text |-> "DELIVERY SCHEDULE: RISE orders are processed on Tuesdays and Thursdays.",
      state |-> "OH",
      section |-> "RISE",
      topic |-> "DELIVERY_DATE",
      position_in_text |-> "consecutive_after" ]
  >>

ExampleMetadata0 ==
  [ states |-> <<"OH">>,
    sections |-> <<"RISE">>,
    topics |-> <<"PRICING", "DELIVERY_DATE">>,
    element_count |-> 6,
    has_images |-> TRUE,
    image_count |-> 4,
    char_count |-> 589,
    word_count |-> 89,
    tab_section |-> "Ohio Operations",
    image_markers |-> 4 ]

\* chunk 1: its text, as the sequence of its words, separators and placeholder tokens
ExampleText1 ==
  <<
    "MARYLAND", " ", "REGULAR", " ", "ORDERS", "\n\n", "Processing", " ", "guidelines", " ",
    "for", " ", "wholesale", " ", "orders", " ", "to", " ", "Maryland", " ", "dispensaries.",
    "\n\n", "BATCH", " ", "SUBSTITUTION:", " ", "For", " ", "flower", " ", "products,", " ",
    "prioritize", " ", "THC", " ", "percentage", " ", "matching.", " ", "If", " ", "requested",
    " ", "batch", " ", "is", " ", "unavailable,", " ", "substitute", " ", "within", " ",
    "same", " ", "10%", " ", "THC", " ", "range.", "\n\n", "For", " ", "example,", " ", "if",
    " ", "customer", " ", "requests", " ", "25%", " ", "THC", " ", "batch", " ", "but", " ",
    "it's", " ", "out", " ", "of", " ", "stock,", " ", "offer", " ", "batches", " ", "in", " ",
    "20-30%", " ", "range.", " ", "[IMAGE_PLACEHOLDER_5]", "\n\n", "FIFO", " ", "PRIORITY:",
    " ", "For", " ", "all", " ", "non-flower", " ", "products,", " ", "follow", " ",
    "First-In-First-Out", " ", "inventory", " ", "management.", " ", "Oldest", " ", "batches",
    " ", "should", " ", "be", " ", "fulfilled", " ", "first", " ", "to", " ", "maintain", " ",
    "product", " ", "freshness.", "\n\n", "The", " ", "inventory", " ", "tracking", " ",
    "sheet", " ", "helps", " ", "identify", " ", "batch", " ", "dates", " ", "and", " ",
    "expiration", " ", "timelines.", " ", "[IMAGE_PLACEHOLDER_6]", " ",
    "[IMAGE_PLACEHOLDER_7]", "\n\n", "SPECIAL", " ", "NOTES:", " ", "Some", " ", "products",
    " ", "may", " ", "have", " ", "promo", " ", "pricing", " ", "that", " ", "overrides", " ",
    "standard", " ", "wholesale", " ", "rates."
  >>

ExampleImages1 ==
  <<
    [ filename |-> "image_5.png",
      path |-> "semantic_output/images/image_5.png",
      label |-> "Image 5: THC percentage matching chart",
      number |-> 5,
      context_text |-> "For example, if customer requests 25% THC batch but it's out of stock, offer batches in 20-30% range.",
      state |-> "MD",
      section |-> "REGULAR",
      topic |-> "BATCH_SUB",
      position_in_text |-> "after_sentence" ],
    [ filename |-> "image_6.png",
      path |-> "semantic_output/images/image_6.png",
      label |-> "Image 6: Inventory tracking sheet",
      number |-> 6,
      context_text |-> "The inventory tracking sheet helps identify batch dates and expiration timelines.",
      state |-> "MD",
      section |-> "REGULAR",
      topic |-> "BATCH_SUB",
      position_in_text |-> "consecutive_after" ],
    [ filename |-> "image_7.png",
      path |-> "semantic_output/images/image_7.png",
      label |-> "Image 7: Batch expiration calendar",
      number |-> 7,
      context_text |-> "The inventory tracking sheet helps identify batch dates and expiration timelines.",
      state |-> "MD",
      section |-> "REGULAR",
      topic |-> "BATCH_SUB",
      position_in_text |-> "consecutive_after" ]
  >>

ExampleMetadata1 ==
  [ states |-> <<"MD">>,
    sections |-> <<"REGULAR">>,
    topics |-> <<"BATCH_SUB", "PRICING">>,
    element_count |-> 5,
    has_images |-> TRUE,
    image_count |-> 3,
    char_count |-> 598,
    word_count |-> 96,
    tab_section |-> "Maryland Operations",
    image_markers |-> 3 ]

\* chunk 2: its text, as the sequence of its words, separators and placeholder tokens
ExampleText2 ==
  <<
    "NEW", " ", "JERSEY", " ", "ORDER", " ", "LIMITS", "\n\n", "Specific", " ", "limitations",
    " ", "and", " ", "requirements", " ", "for", " ", "New", " ", "Jersey", " ", "market", " ",
    "orders.", "\n\n", "UNIT", " ", "LIMITS:", " ", "Regular", " ", "orders", " ", "have", " ",
    "no", " ", "set", " ", "unit", " ", "or", " ", "dollar", " ", "limits.", " ", "Do", " ",
    "not", " ", "break", " ", "case", " ", "sizes", " ", "unless", " ", "specifically", " ",
    "requested", " ", "by", " ", "customer.", "\n\n", "RISE", " ", "UNIT", " ", "LIMITS:", " ",
    "Internal", " ", "RISE", " ", "orders", " ", "are", " ", "limited", " ", "to", " ",
    "4,000", " ", "units", " ", "maximum", " ", "per", " ", "order.", " ",
    "[IMAGE_PLACEHOLDER_8]", "\n\n", "If", " ", "order", " ", "exceeds", " ", "4,000", " ",
    "units,", " ", "split", " ", "into", " ", "multiple", " ", "orders", " ", "scheduled", " ",
    "for", " ", "different", " ", "delivery", " ", "dates.", " ", "Example", " ",
    "calculation", " ", "shown", " ", "in", " ", "order", " ", "splitting", " ", "guide.",
    "\n\n", "BATTERY", " ", "SEPARATION:", " ", "All", " ", "battery", " ", "products", " ",
    "must", " ", "be", " ", "placed", " ", "on", " ", "separate", " ", "invoices", " ", "for",
    " ", "compliance", " ", "reasons.", " ", "[IMAGE_PLACEHOLDER_9]", " ",
    "[IMAGE_PLACEHOLDER_10]", " ", "[IMAGE_PLACEHOLDER_11]", "\n\n", "This", " ", "applies",
    " ", "to", " ", "both", " ", "regular", " ", "and", " ", "RISE", " ", "orders", " ", "in",
    " ", "New", " ", "Jersey", " ", "market."
  >>

ExampleImages2 ==
  <<
    [ filename |-> "image_8.png",
      path |-> "semantic_output/images/image_8.png",
      label |-> "Image 8: RISE unit limit calculator",
      number |-> 8,
      context_text |-> "Internal RISE orders are limited to 4,000 units maximum per order.",
      state |-> "NJ",
      section |-> "RISE",
      topic |-> "ORDER_LIMIT",
      position_in_text |-> "after_sentence" ],
    [ filename |-> "image_9.png",
      path |-> "semantic_output/images/image_9.png",
      label |-> "Image 9: Battery separation workflow",
      number |-> 9,
      context_text |-> "All battery products must be placed on separate invoices for compliance reasons.",
      state |-> "NJ",
      section |-> "GENERAL",
      topic |-> "BATTERIES",
      position_in_text |-> "consecutive_after" ],
    [ filename |-> "image_10.png",
      path |-> "semantic_output/images/image_10.png",
      label |-> "Image 10: Battery invoice template",
      number |-> 10,
      context_text |-> "All battery products must be placed on separate invoices for compliance reasons.",
      state |-> "NJ",
      section |-> "GENERAL",
      topic |-> "BATTERIES",
      position_in_text |-> "consecutive_after" ],
    [ filename |-> "image_11.png",
      path |-> "semantic_output/images/image_11.png",
      label |-> "Image 11: Compliance checklist",
      number |-> 11,
      context_text |-> "All battery products must be placed on separate invoices for compliance reasons.",
      state |-> "NJ",
      section |-> "GENERAL",
      topic |-> "BATTERIES",
      position_in_text |-> "consecutive_after" ]
  >>

ExampleMetadata2 ==
  [ states |-> <<"NJ">>,
    sections |-> <<"RISE", "GENERAL">>,
    topics |-> <<"ORDER_LIMIT", "BATTERIES">>,
    element_count |-> 4,
    has_images |-> TRUE,
    image_count |-> 4,
    char_count |-> 578,
    word_count |-> 89,
    tab_section |-> "New Jersey Operations",
    image_markers |-> 4 ]

ExampleChunk0 ==
  [chunk_id |-> 0, text |-> ExampleText0, images |-> ExampleImages0,
   metadata |-> ExampleMetadata0]

ExampleChunk1 ==
  [chunk_id |-> 1, text |-> ExampleText1, images |-> ExampleImages1,
   metadata |-> ExampleMetadata1]

ExampleChunk2 ==
  [chunk_id |-> 2, text |-> ExampleText2, images |-> ExampleImages2,
   metadata |-> ExampleMetadata2]

\* variant: the first image of chunk 1 is not recorded although its placeholder is in
\* the text
Chunks_ImageNotRecorded ==
  <<ExampleChunk0, [ExampleChunk1 EXCEPT !.images = Tail(@)], ExampleChunk2>>

\* variant: chunk 1 is seeded with the last two words of chunk 0, across the tab change
Chunks_OverlapAcrossTabs ==
  <<ExampleChunk0,
    [ExampleChunk1 EXCEPT !.text =
       SubSeq(ExampleText0, Len(ExampleText0) - 2, Len(ExampleText0)) \o <<" ">> \o @],
    ExampleChunk2>>

\* variant: the first image of the run 3, 4 of chunk 0 is recorded as after_sentence
Chunks_RunStartsAfterSentence ==
  <<[ExampleChunk0 EXCEPT !.images[3].position_in_text = "after_sentence"],
    ExampleChunk1, ExampleChunk2>>

\* variant: metadata.image_count of chunk 1 counts the placeholder runs, not the images
Chunks_ImageCountOfRuns ==
  <<ExampleChunk0, [ExampleChunk1 EXCEPT !.metadata.image_count = 2], ExampleChunk2>>

\* variant: metadata.sections of chunk 2 keeps only the first section met
Chunks_FirstSectionOnly ==
  <<ExampleChunk0, ExampleChunk1,
    [ExampleChunk2 EXCEPT !.metadata.sections = <<"RISE">>]>>

\* the chunks createExampleChunksWithImagePlaceholders returns
createExampleChunksWithImagePlaceholders == <<ExampleChunk0, ExampleChunk1, ExampleChunk2>>

\* this.imageCounter after createExampleChunksWithImagePlaceholders ("Update image
\* counter"): set to the next available number, whatever it was before
\* variant: the counter is left at the last number used
NextImageCounter_LastUsed(imageCounter) == ExampleImageCount

\* variant: the counter is advanced from its previous value
NextImageCounter_Advanced(imageCounter) == imageCounter + ExampleImageCount

NextImageCounter(imageCounter) == NextAvailableImageNumber

\* --------------------------------------------------- EnhancedDocxProcessor

\* options.x || d : a falsy option (absent, 0, NaN: modelled as 0) gives the default
OrDefault(value, default) == IF value = 0 THEN default ELSE value

constructor(opts) ==
  [ targetChunkSize |-> OrDefault(opts.targetChunkSize, DefaultTargetChunkSize),
    maxChunkSize |-> OrDefault(opts.maxChunkSize, DefaultMaxChunkSize),
    overlapSize |-> OrDefault(opts.overlapSize, DefaultOverlapSize),
    imageCounter |-> 1,
    elementIdCounter |-> 0,
    currentState |-> "null",
    currentSection |-> "null",
    currentTopic |-> "null",
    currentTabSection |-> "null" ]

\* the distinct truthy metadata.tab_section values
detectTabSections(chunks) ==
  Cardinality({chunks[i].metadata.tab_section : i \in
    {j \in 1..Len(chunks) : chunks[j].metadata.tab_section # "null"}})

countContextChanges(chunks) ==
  Cardinality({i \in 2..Len(chunks) :
    \/ chunks[i].metadata.states # chunks[i-1].metadata.states
    \/ chunks[i].metadata.sections # chunks[i-1].metadata.sections
    \/ chunks[i].metadata.tab_section # chunks[i-1].metadata.tab_section})

RECURSIVE countImageMarkers(_)
countImageMarkers(chunks) ==
  IF chunks = <<>> THEN 0
  ELSE Len(PlaceholderMatches(Head(chunks).text)) + countImageMarkers(Tail(chunks))

ImageFileName(i) == "image_" \o ToString(i) \o ".png"

\* createExampleImages: writes image_1.png .. image_11.png unless the file exists
createExampleImages(dir) ==
  dir \cup {[name |-> ImageFileName(i), content |-> "Placeholder for image " \o ToString(i)] :
              i \in {j \in 1..ExampleImageCount :
                       \A f \in dir : f.name # ImageFileName(j)}}

\* what processDocument returns, given the chunks and the counter after building them
processResult(chunks, imageCounter) ==
  [ chunks |-> chunks,
    imageCount |-> imageCounter - 1,
    statistics |->
      [ elementsProcessed |-> Len(chunks) * 3,
        tabsDetected |-> detectTabSections(chunks),
        contextChanges |-> countContextChanges(chunks),
        imageMarkers |-> countImageMarkers(chunks) ] ]

\* shouldIncludeImage(imagePosition, chunkTextPosition)
shouldIncludeImage(imagePosition, chunkTextPosition) ==
  IF imagePosition = "before_chunk" THEN FALSE
  ELSE IF imagePosition = "middle_chunk" \/ imagePosition = "after_chunk" THEN TRUE
  ELSE TRUE

\* grouped[grouped.length - 1].consecutiveImages = currentGroup
AttachToLast(groupedSoFar, currentGroup) ==
  [groupedSoFar EXCEPT ![Len(groupedSoFar)].consecutiveImages = currentGroup]

\* the guard of the attachment inside the loop
LoopAttaches(groupedSoFar) ==
  Len(groupedSoFar) > 0 /\ groupedSoFar[Len(groupedSoFar)].type = "text"

\* the guard of the attachment after the loop ("remaining images at the end")
EndAttaches(groupedSoFar, currentGroup) ==
  Len(currentGroup) > 0 /\ Len(groupedSoFar) > 0

\* variant: the label of an image is not looked at
IsUnlabeledImage_AnyImage(element) == element.type = "image"

\* element.type === 'image' && !element.hasLabel
IsUnlabeledImage(element) == element.type = "image" /\ ~element.hasLabel

RECURSIVE groupLoop(_, _, _)
\* the for loop of groupConsecutiveImages over the rest of the elements, and the
\* handling of the images that remain at its end. An element object that is given
\* consecutiveImages is the caller's object: an element already in the current group
\* or in grouped keeps the value it had when it was put there
groupLoop(rest, groupedSoFar, currentGroup) ==
  IF rest = <<>>
  THEN IF EndAttaches(groupedSoFar, currentGroup)
       THEN AttachToLast(groupedSoFar, currentGroup)
       ELSE groupedSoFar
  ELSE LET element == Head(rest)
       IN IF IsUnlabeledImage(element)
          THEN groupLoop(Tail(rest), groupedSoFar, Append(currentGroup, element))
          ELSE LET flushed ==
                     IF Len(currentGroup) > 0 /\ LoopAttaches(groupedSoFar)
                     THEN AttachToLast(groupedSoFar, currentGroup)
                     ELSE groupedSoFar
               IN groupLoop(Tail(rest), Append(flushed, element), <<>>)

groupConsecutiveImages(elems) == groupLoop(elems, <<>>, <<>>)

\* the caller's element objects after groupConsecutiveImages(elems): the elements of
\* grouped are the same objects, so each shows the consecutiveImages it was given
ElementsAfterGrouping(elems, result) ==
  [i \in 1..Len(elems) |->
     IF \E k \in 1..Len(result) : result[k].id = elems[i].id
     THEN [elems[i] EXCEPT !.consecutiveImages =
             result[CHOOSE k \in 1..Len(result) : result[k].id = elems[i].id]
               .consecutiveImages]
     ELSE elems[i]]

\* the index of the first '. ' of a text of characters, 0 when there is none
FirstSeparator(text) ==
  LET found == {k \in 1..Len(text) - 1 : text[k] = "." /\ text[k + 1] = " "}
  IN IF found = {} THEN 0 ELSE CHOOSE k \in found : \A m \in found : k <= m

RECURSIVE split(_)
\* text.split('. '): the pieces between the occurrences of '. ', left to right
split(text) ==
  LET k == FirstSeparator(text)
  IN IF k = 0 THEN <<text>>
     ELSE <<SubSeq(text, 1, k - 1)>> \o split(SubSeq(text, k + 2, Len(text)))

\* sentences.splice(index, 0, item), index counted from 0
splice(sentences, index, item) ==
  SubSeq(sentences, 1, index) \o <<item>> \o SubSeq(sentences, index + 1, Len(sentences))

RECURSIVE join(_)
\* sentences.join('. ')
join(sentences) ==
  IF Len(sentences) = 0 THEN <<>>
  ELSE IF Len(sentences) = 1 THEN sentences[1]
  ELSE sentences[1] \o <<".", " ">> \o join(Tail(sentences))

\* insertImagePlaceholder(text, imageNumber, position): the text is a sequence of
\* characters, the placeholder one token of it
insertImagePlaceholder(text, imageNumber, position) ==
  LET placeholder == Placeholder(imageNumber)
  IN CASE position = "after_sentence" -> text \o <<" ", placeholder>>
       [] position = "consecutive_after" -> text \o <<" ", placeholder>>
       [] position = "middle_paragraph" ->
            LET sentences == split(text)
                midPoint == Len(sentences) \div 2
            IN join(splice(sentences, midPoint, <<placeholder>>))
       [] OTHER -> text \o <<" ", placeholder>>

\* ------------------------------------------------- the serverless handlers

\* the defaults of upload-chunks-github.js for the credentials
DefaultToken == "your-github-token"
DefaultRepo == "your-username/your-repo"

\* x || fallback, for an environment variable that is unset ("undefined") or empty
OrElse(x, fallback) == IF x = "undefined" \/ x = "" THEN fallback ELSE x

\* !x, for such a variable
Falsy(x) == x = "undefined" \/ x = ""

\* the sha GitHub gives a file is a function of its content
NoSha == [none |-> TRUE]
Sha(content) == [sha |-> content]

\* Buffer.from(content).toString('base64'), and what GitHub stores of it
Base64(content) == [base64 |-> content]
Decoded(sent) == sent.base64

\* JSON.stringify(chunks, null, 2): the chunks by their ids
ChunksJson(chunks) == [json |-> [c \in 1..Len(chunks) |-> chunks[c].chunk_id]]

\* generateReadmeContent(chunks): the counts the text is built from
generateReadmeContent(chunks) ==
  [readme |-> Len(chunks), images |-> countImageMarkers(chunks)]

\* readdirSync(imagesDir) filtered to image files, as a sequence of files
ImageFiles(dir) ==
  LET names == [i \in 1..ExampleImageCount |-> ImageFileName(i)]
      present == SelectSeq(names, LAMBDA n : \E f \in dir : f.name = n)
  IN [i \in 1..Len(present) |-> CHOOSE f \in dir : f.name = present[i]]

\* the uploadFileToGitHub calls of a handler, in order: chunks JSON, images, README
Uploads(chunksPath, chunksData, imagesPrefix, dir, readmePath, readmeContent) ==
  <<[path |-> chunksPath, content |-> chunksData]>>
  \o [i \in 1..Len(ImageFiles(dir)) |->
        [path |-> imagesPrefix \o ImageFiles(dir)[i].name,
         content |-> [bytes |-> ImageFiles(dir)[i].content]]]
  \o <<[path |-> readmePath, content |-> readmeContent]>>

\* uploadResultsToGitHub of semantic-chunking.js
uploadResultsToGitHub(chunks, dir) ==
  Uploads("semantic_chunks.json", ChunksJson(chunks), "images/", dir,
          "semantic_README.md", generateReadmeContent(chunks))

\* the uploads of the handler of upload-chunks-github.js
uploadChunksToGitHub(chunksData, chunks, dir) ==
  Uploads("semantic_output/semantic_chunks.json", chunksData, "semantic_output/images/",
          dir, "semantic_output/README.md", generateReadmeContent(chunks))

Exists(files, path) == \E f \in files : f.path = path

ContentAt(files, path) == (CHOOSE f \in files : f.path = path).content

\* variant: uploadData.sha is never set
ShaToSend_Never(got, current) == NoSha

\* uploadFileToGitHub: the sha of uploadData, from how the GET ended
ShaToSend(got, current) == IF got = "ok" THEN current ELSE NoSha

\* the repository and token GitHub knows
TheRepo == "owner/repo"
TheToken == "ghp_token"

\* GitHub accepts a PUT of the contents API when it is authorised, names the
\* repository, and carries the sha of the file it replaces, or none for a new file
Accepts(files, token, repo, path, sha) ==
  /\ token = TheToken /\ repo = TheRepo
  /\ sha = (IF Exists(files, path) THEN Sha(ContentAt(files, path)) ELSE NoSha)

\* ------------------------------------------------ the google-docs-sync handler

\* no error, and the error a Google call throws: error.code is a number, or is
\* missing (0) as for a network error
NoError == [thrown |-> FALSE, code |-> 0, by |-> "none"]
Thrown(code, call) == [thrown |-> TRUE, code |-> code, by |-> call]

\* the response of the catch of the handler (lines 655-693)
OuterCatch(error) ==
  CASE error.code = 403 -> [status |-> 403, error |-> "Access denied"]
    [] error.code = 404 -> [status |-> 404, error |-> "Document not found"]
    [] error.code = 429 -> [status |-> 429, error |-> "Rate limit exceeded"]
    [] error.code = 401 -> [status |-> 401, error |-> "Authentication failed"]
    [] OTHER -> [status |-> 500, error |-> "Failed to sync from Google Docs"]

\* the response of the catch around docs.documents.get (lines 511-530)
DocumentCatch(error) ==
  IF error.code = 403 THEN [status |-> 403, error |-> "Access denied to document"]
  ELSE IF error.code = 404 THEN [status |-> 404, error |-> "Document not found"]
  ELSE [status |-> 500, error |-> "Failed to access document"]

\* documentId.includes(' ') || (!documentId.includes('/') && documentId.length < 20)
LooksLikeName(documentId) ==
  documentId.includesSpace \/ (~documentId.includesSlash /\ Len(documentId.value) < 20)

\* ----------------------------------------------------------- GoogleDocsSync

\* the values of JavaScript: null, undefined, a string, a number; an object is the
\* record of its properties
Null == [isNull |-> TRUE]
Undefined == [isUndefined |-> TRUE]
Str(s) == [string |-> s]
Num(n) == [number |-> n]

\* no item under the key 'googleDocsSync'
NoItem == [absent |-> TRUE]

\* object.key: undefined when the object has no such property
Get(object, key) == IF key \in DOMAIN object THEN object[key] ELSE Undefined

\* JSON.stringify(object): the properties in order, without those that are undefined
\* (the nested values of the state are strings, numbers, null or objects of such)
stringify(object) ==
  [text |-> [key \in {k \in DOMAIN object : object[k] # Undefined} |-> object[key]]]

\* JSON.parse(text)
parse(item) == item.text

\* the fields the constructor sets
GoogleDocsSync ==
  [isProcessing |-> FALSE, isDriveUpdating |-> FALSE, lastSyncTime |-> Null,
   lastDriveUpdate |-> Null, documentInfo |-> Null, docxData |-> Null,
   driveFileInfo |-> Null]

\* !value, for a field that holds an object, null or undefined
Absent(value) == value = Null \/ value = Undefined

\* updateUI: the disabled attributes of the three buttons (lines 398-422)
updateUI(this) ==
  [download |-> Absent(this.docxData) \/ this.isProcessing,
   updateDrive |-> Absent(this.documentInfo) \/ this.isProcessing \/ this.isDriveUpdating,
   sync |-> this.isProcessing \/ this.isDriveUpdating]

\* no request in flight
NoRequests == [sync |-> 0, drive |-> 0]

\* variant: syncDocument does not look at isProcessing
SyncInProgress_Ignored(this) == FALSE

\* the guard of syncDocument (line 127)
SyncInProgress(this) == this.isProcessing

\* the guard of updateGoogleDrive (line 241)
DriveUpdateInProgress(this) == this.isDriveUpdating

\* variant: the finally of syncDocument leaves isProcessing as it is
SyncFinally_FlagKept(this) == this

\* the finally of syncDocument (lines 229-231)
SyncFinally(this) == [this EXCEPT !.isProcessing = FALSE]

\* the finally of updateGoogleDrive (lines 306-308)
DriveFinally(this) == [this EXCEPT !.isDriveUpdating = FALSE]

\* variant: the state object is written without driveFileInfo
StateToSave_NoDriveFileInfo(this) ==
  [lastSyncTime |-> this.lastSyncTime,
   lastDriveUpdate |-> this.lastDriveUpdate,
   documentInfo |-> this.documentInfo,
   docxData |-> IF this.docxData # Null
                THEN [size |-> Get(this.docxData, "size"),
                      mimeType |-> Get(this.docxData, "mimeType")]
                ELSE Null,
   driveFileInfo |-> Undefined]

\* the state object saveSyncState builds
StateToSave(this) ==
  [lastSyncTime |-> this.lastSyncTime,
   lastDriveUpdate |-> this.lastDriveUpdate,
   documentInfo |-> this.documentInfo,
   docxData |-> IF this.docxData # Null
                THEN [size |-> Get(this.docxData, "size"),
                      mimeType |-> Get(this.docxData, "mimeType")]
                ELSE Null,
   driveFileInfo |-> this.driveFileInfo]

\* saveSyncState: the item after the call; setItem either stores the text or throws
\* (quota exceeded, storage not available), which the catch only logs
saveSyncState(this, item, stored) ==
  IF stored THEN stringify(StateToSave(this)) ELSE item

\* loadSavedState: the fields after the call
loadSavedState(this, item) ==
  IF item # NoItem
  THEN LET state == parse(item)
       IN [this EXCEPT !.lastSyncTime = Get(state, "lastSyncTime"),
                       !.lastDriveUpdate = Get(state, "lastDriveUpdate"),
                       !.documentInfo = Get(state, "documentInfo"),
                       !.docxData = Get(state, "docxData"),
                       !.driveFileInfo = Get(state, "driveFileInfo")]
  ELSE this

\* ------------------------------------------------------------------ inputs

TargetChunkSizes == {0, 400}
MaxChunkSizes == {0, 400}
OverlapSizes == {0, 50}

Options == [targetChunkSize : TargetChunkSizes, maxChunkSize : MaxChunkSizes,
            overlapSize : OverlapSizes]

ElementKinds ==
  { [type |-> "text", hasLabel |-> FALSE],
    [type |-> "image", hasLabel |-> FALSE],
    [type |-> "image", hasLabel |-> TRUE],
    [type |-> "table", hasLabel |-> FALSE] }

\* the streams of at most n elements; an element's id is its position in the stream
Streams(n) ==
  { [i \in 1..Len(s) |-> [type |-> s[i].type, hasLabel |-> s[i].hasLabel, id |-> i,
                            consecutiveImages |-> <<>>]] :
      s \in UNION {[1..k -> ElementKinds] : k \in 0..n} }

ImagePositions == {"before_chunk", "middle_chunk", "after_chunk", "unknown"}

ImagesDirs ==
  { {}, {[name |-> ImageFileName(1), content |-> "stale"]} }

\* the characters of the texts given to insertImagePlaceholder
Characters == {"a", ".", " "}

Texts == UNION {[1..n -> Characters] : n \in 0..MaxTextLen}

\* the position values: the three cases of the switch, one value of no case, and the
\* argument left out
PositionValues ==
  {"after_sentence", "consecutive_after", "middle_paragraph", "before_sentence", "undefined"}

\* what new Date().toISOString() returns when a sync has answered
SyncTimes == {Str("2025-01-01T00:00:00.000Z")}

\* what new Date().toISOString() returns when a save on GitHub has answered
DriveTimes == {Str("2025-01-02T00:00:00.000Z")}

\* the documents the google-docs-sync API answers with: data.document and data.docx
SyncResponses ==
  {[document |-> [id |-> Str("doc-1"), name |-> Str("GTI Data Base and SOP")],
    docx |-> [data |-> Str("UEsDBA=="), mimeType |-> Str("application/vnd.openxmlformats"),
              size |-> Num(8)]],
   [document |-> [id |-> Str("doc-2"), name |-> Str("Mock Document")],
    docx |-> [data |-> Str("UEsDBBQAAAA="),
              mimeType |-> Str("application/vnd.openxmlformats"), size |-> Num(12)]]}

\* data.githubFile of the save-to-github API
GithubFile(documentInfo) ==
  [name |-> documentInfo.name, url |-> Str("html_url"),
   downloadUrl |-> Str("download_url"), action |-> Str("updated")]

\* how a request of the page settles
Outcomes == {"success", "error_response", "threw"}

\* the value of the input field googleDocUrl when syncDocument reads it
DocumentInputs == {"", "https://docs.google.com/document/d/doc-1/edit"}

\* where a call of syncDocument or updateGoogleDrive comes from: the click of the
\* button, the keyboard shortcut of the application, a call of the method
UserSources == {"button", "shortcut"}

\* the values of an environment variable: unset, empty, or set
TokenValues == {"undefined", "", DefaultToken, TheToken}
RepoValues == {"undefined", "", TheRepo}

\* the repository before a behaviour: empty, or with the results of an earlier run of
\* the semantic-chunking handler
PreviousResults ==
  {[path |-> "semantic_chunks.json", content |-> [json |-> <<"previous">>]],
   [path |-> "images/image_1.png", content |-> [bytes |-> "previous"]],
   [path |-> "semantic_README.md", content |-> [readme |-> 0, images |-> 0]]}

Remotes == {{}, PreviousResults}

\* the local chunks file before a behaviour: missing, or of an earlier run
NoFile == [missing |-> TRUE]
ChunksFiles == {NoFile, [chunks |-> <<>>, data |-> [json |-> <<"previous">>]]}

\* req.body.documentId: missing, a name, a short id, a long id, a URL
DocumentIds ==
  {[value |-> "", includesSpace |-> FALSE, includesSlash |-> FALSE],
   [value |-> "GTI Data Base and SOP", includesSpace |-> TRUE, includesSlash |-> FALSE],
   [value |-> "short-id", includesSpace |-> FALSE, includesSlash |-> FALSE],
   [value |-> "1BxiMVs0XRA5nFMdKvBdBZjgmUUqptlbs74OgvE2upms", includesSpace |-> FALSE,
    includesSlash |-> FALSE],
   [value |-> "https://docs.google.com/document/d/1BxiMVs0XRA5nFMdKvBdBZjgm/edit",
    includesSpace |-> FALSE, includesSlash |-> TRUE]}

\* where the service account comes from: the request, the environment variables, the
\* JSON variable (well-formed or not), nowhere; or it lacks private_key or client_email
CredentialSources == {"provided", "env", "json", "json invalid", "none", "incomplete"}

\* error.code of an error a Google call throws; 0 when the error has no code
ErrorCodes == {401, 403, 404, 429, 500, 503, 0}

\* how a Google call ends: with data, with an empty result, or with an error
CallOutcomes ==
  {[ok |-> TRUE, empty |-> FALSE, code |-> 0], [ok |-> TRUE, empty |-> TRUE, code |-> 0]}
  \cup {[ok |-> FALSE, empty |-> FALSE, code |-> c] : c \in ErrorCodes}

\* ----------------------------------------------------------------- actions

\* no handler is running
Idle == [endpoint |-> "none", pc |-> "idle", status |-> 0, uploads |-> <<>>,
         done |-> 0, count |-> 0, steps |-> <<>>, before |-> {}]

\* no uploadFileToGitHub call yet
NoUpload == [called |-> FALSE]

HandlersIdle ==
  /\ env = [GITHUB_TOKEN |-> "undefined", GITHUB_REPO |-> "undefined"]
  /\ remote = {}
  /\ chunksFile = NoFile
  /\ requests = <<>>
  /\ run = Idle
  /\ lastUpload = NoUpload

\* no google-docs-sync request yet
DocsSyncIdle ==
  [pc |-> "idle", documentId |-> "", status |-> 0, error |-> "", success |-> FALSE,
   saved |-> FALSE, raised |-> NoError]

\* no page is open
SyncIdle ==
  /\ sync = GoogleDocsSync
  /\ localStorage = NoItem
  /\ inFlight = NoRequests
  /\ buttons = updateUI(GoogleDocsSync)
  /\ notification = ""
  /\ calls = <<"none", "none">>
  /\ beforeSave = GoogleDocsSync

NotInserted ==
  [called |-> FALSE, text |-> <<>>, imageNumber |-> 0, position |-> "none", value |-> <<>>]

Init ==
  /\ options \in Options
  /\ elements \in Streams(MaxDocLen)
  /\ processor = constructor(options)
  /\ imagesDir \in ImagesDirs
  /\ runs = <<>>
  /\ grouped = [called |-> FALSE, error |-> "none", value |-> <<>>]
  /\ included = [called |-> FALSE, position |-> "none", value |-> FALSE]
  /\ inserted = NotInserted
  /\ SyncIdle
  /\ docsSync = DocsSyncIdle
  /\ HandlersIdle

\* new EnhancedDocxProcessor(options): a fresh instance for the same request options
Construct ==
  /\ processor # constructor(options)
  /\ processor' = constructor(options)
  /\ UNCHANGED <<options, elements, imagesDir, runs, grouped, included>>
  /\ UNCHANGED outsideProcessor

\* processor.processDocument(docxPath, outputDir)
ProcessDocument ==
  /\ Len(runs) < MaxRuns
  /\ LET chunks == createExampleChunksWithImagePlaceholders
         counter == NextImageCounter(processor.imageCounter)
     IN /\ processor' = [processor EXCEPT !.imageCounter = counter]
        /\ imagesDir' = createExampleImages(imagesDir)
        /\ runs' = Append(runs, [counterBefore |-> processor.imageCounter,
                                 result |-> processResult(chunks, counter)])
  /\ UNCHANGED <<options, elements, grouped, included>>
  /\ UNCHANGED outsideProcessor

Next == Construct \/ ProcessDocument

Spec == Init /\ [][Next]_vars

\* the helper methods, applied to every element stream of at most MaxLen elements
InitHelpers ==
  /\ options = [targetChunkSize |-> 0, maxChunkSize |-> 0, overlapSize |-> 0]
  /\ elements \in Streams(MaxLen)
  /\ processor = constructor(options)
  /\ imagesDir = {}
  /\ runs = <<>>
  /\ grouped = [called |-> FALSE, error |-> "none", value |-> <<>>]
  /\ included = [called |-> FALSE, position |-> "none", value |-> FALSE]
  /\ inserted = NotInserted
  /\ SyncIdle
  /\ docsSync = DocsSyncIdle
  /\ HandlersIdle

\* processor.groupConsecutiveImages(elements): it has no throw and no validation, so
\* it always returns
GroupConsecutiveImages ==
  /\ LET result == groupConsecutiveImages(elements)
     IN /\ grouped' = [called |-> TRUE, error |-> "none", value |-> result]
        /\ elements' = ElementsAfterGrouping(elements, result)
  /\ UNCHANGED <<options, processor, imagesDir, runs, included>>
  /\ UNCHANGED outsideProcessor

\* processor.shouldIncludeImage(imagePosition, chunkTextPosition)
ShouldIncludeImage(imagePosition, chunkTextPosition) ==
  /\ included' = [called |-> TRUE, position |-> imagePosition,
                  value |-> shouldIncludeImage(imagePosition, chunkTextPosition)]
  /\ UNCHANGED <<options, elements, processor, imagesDir, runs, grouped>>
  /\ UNCHANGED outsideProcessor

NextHelpers ==
  \/ GroupConsecutiveImages
  \/ \E p \in ImagePositions, c \in 0..1 : ShouldIncludeImage(p, c)

SpecHelpers == InitHelpers /\ [][NextHelpers]_vars

\* insertImagePlaceholder alone, over all short texts
InitInsert ==
  /\ options = [targetChunkSize |-> 0, maxChunkSize |-> 0, overlapSize |-> 0]
  /\ elements = <<>>
  /\ processor = constructor(options)
  /\ imagesDir = {}
  /\ runs = <<>>
  /\ grouped = [called |-> FALSE, error |-> "none", value |-> <<>>]
  /\ included = [called |-> FALSE, position |-> "none", value |-> FALSE]
  /\ inserted = NotInserted
  /\ SyncIdle
  /\ docsSync = DocsSyncIdle
  /\ HandlersIdle

\* a call with the position argument given, or left out (the default of line 344)
InsertImagePlaceholder(text, imageNumber, position) ==
  /\ inserted' = [called |-> TRUE, text |-> text, imageNumber |-> imageNumber,
                  position |-> position,
                  value |-> insertImagePlaceholder(text, imageNumber,
                             IF position = "undefined" THEN "after_sentence" ELSE position)]
  /\ UNCHANGED outsideInsert

NextInsert ==
  \E text \in Texts, imageNumber \in 1..MaxImageNumber, position \in PositionValues :
    InsertImagePlaceholder(text, imageNumber, position)

SpecInsert == InitInsert /\ [][NextInsert]_vars

\* the page of the application: one GoogleDocsSync instance and the localStorage
InitSync ==
  /\ options = [targetChunkSize |-> 0, maxChunkSize |-> 0, overlapSize |-> 0]
  /\ elements = <<>>
  /\ processor = constructor(options)
  /\ imagesDir = {}
  /\ runs = <<>>
  /\ grouped = [called |-> FALSE, error |-> "none", value |-> <<>>]
  /\ included = [called |-> FALSE, position |-> "none", value |-> FALSE]
  /\ inserted = NotInserted
  /\ SyncIdle
  /\ docsSync = DocsSyncIdle
  /\ HandlersIdle

Called(name) == <<calls[2], name>>

\* whether the page lets a call through: a disabled button takes no click, the
\* shortcut handler of the application tests isProcessing, a call of the method is
\* not held back
SyncReaches(source) ==
  CASE source = "button" -> ~buttons.sync
    [] source = "shortcut" -> ~sync.isProcessing
    [] OTHER -> TRUE

DriveReaches(source) ==
  CASE source = "button" -> ~buttons.updateDrive
    [] OTHER -> TRUE

\* syncDocument up to its request (lines 126-148)
SyncDocument(source, input) ==
  /\ SyncReaches(source)
  /\ calls' = Called("syncDocument")
  /\ IF SyncInProgress(sync)
     THEN /\ notification' = "Sync already in progress..."
          /\ UNCHANGED <<sync, inFlight, buttons>>
     ELSE IF input = ""
     THEN /\ notification' = "Please enter a Google Doc URL, ID, or name"
          /\ UNCHANGED <<sync, inFlight, buttons>>
     ELSE /\ inFlight.sync < MaxInFlight
          /\ sync' = [sync EXCEPT !.isProcessing = TRUE]
          /\ buttons' = updateUI(sync')
          /\ inFlight' = [inFlight EXCEPT !.sync = @ + 1]
          /\ UNCHANGED notification
  /\ UNCHANGED <<localStorage, beforeSave>>
  /\ UNCHANGED outsideSync

\* syncDocument from the settling of its request: the fields, saveSyncState, finally
SyncDocumentSettle(outcome, data, now, stored) ==
  /\ inFlight.sync > 0
  /\ inFlight' = [inFlight EXCEPT !.sync = @ - 1]
  /\ IF outcome = "success"
     THEN LET this == [sync EXCEPT !.documentInfo = data.document,
                                   !.docxData = data.docx,
                                   !.lastSyncTime = now]
          IN /\ localStorage' = saveSyncState(this, localStorage, stored)
             /\ beforeSave' = this
             /\ calls' = Called(IF stored THEN "saveSyncState" ELSE "saveSyncState threw")
             /\ notification' = "Successfully synced"
             /\ sync' = SyncFinally(this)
     ELSE /\ sync' = SyncFinally(sync)
          /\ calls' = Called("syncDocument settled")
          /\ notification' = "Sync failed"
          /\ UNCHANGED <<localStorage, beforeSave>>
  /\ buttons' = updateUI(sync')
  /\ UNCHANGED outsideSync

\* updateGoogleDrive up to its request (lines 240-254)
UpdateGoogleDrive(source) ==
  /\ DriveReaches(source)
  /\ calls' = Called("updateGoogleDrive")
  /\ IF DriveUpdateInProgress(sync)
     THEN /\ notification' = "GitHub save already in progress..."
          /\ UNCHANGED <<sync, inFlight, buttons>>
     ELSE IF Absent(sync.documentInfo)
     THEN /\ notification' = "No document available to save. Please sync first."
          /\ UNCHANGED <<sync, inFlight, buttons>>
     ELSE /\ inFlight.drive < MaxInFlight
          /\ sync' = [sync EXCEPT !.isDriveUpdating = TRUE]
          /\ buttons' = updateUI(sync')
          /\ inFlight' = [inFlight EXCEPT !.drive = @ + 1]
          /\ UNCHANGED notification
  /\ UNCHANGED <<localStorage, beforeSave>>
  /\ UNCHANGED outsideSync

\* updateGoogleDrive from the settling of its request (lines 256-311)
UpdateGoogleDriveSettle(outcome, now, stored) ==
  /\ inFlight.drive > 0
  /\ inFlight' = [inFlight EXCEPT !.drive = @ - 1]
  /\ IF outcome = "success" /\ ~Absent(sync.documentInfo)
     THEN LET this == [sync EXCEPT !.driveFileInfo = GithubFile(sync.documentInfo),
                                   !.lastDriveUpdate = now]
          IN /\ localStorage' = saveSyncState(this, localStorage, stored)
             /\ beforeSave' = this
             /\ calls' = Called(IF stored THEN "saveSyncState" ELSE "saveSyncState threw")
             /\ notification' = "Successfully saved file on GitHub"
             /\ sync' = DriveFinally(this)
     ELSE /\ sync' = DriveFinally(sync)
          /\ calls' = Called("updateGoogleDrive settled")
          /\ notification' = "GitHub save failed"
          /\ UNCHANGED <<localStorage, beforeSave>>
  /\ buttons' = updateUI(sync')
  /\ UNCHANGED outsideSync

\* handleBeforeUnload of the application: saveSyncState
HandleBeforeUnload(stored) ==
  /\ localStorage' = saveSyncState(sync, localStorage, stored)
  /\ beforeSave' = sync
  /\ calls' = Called(IF stored THEN "saveSyncState" ELSE "saveSyncState threw")
  /\ UNCHANGED <<sync, inFlight, buttons, notification>>
  /\ UNCHANGED outsideSync

\* clearData
ClearData ==
  /\ sync' = [sync EXCEPT !.documentInfo = Null, !.docxData = Null,
                          !.lastSyncTime = Null]
  /\ localStorage' = NoItem
  /\ buttons' = updateUI(sync')
  /\ notification' = "All data cleared"
  /\ calls' = Called("clearData")
  /\ UNCHANGED <<inFlight, beforeSave>>
  /\ UNCHANGED outsideSync

\* the page is loaded anew: new GoogleDocsSync() and init(), which calls
\* loadSavedState and updateUI; the requests of the page before are gone
NewPage ==
  /\ sync' = loadSavedState(GoogleDocsSync, localStorage)
  /\ inFlight' = NoRequests
  /\ buttons' = updateUI(sync')
  /\ notification' = ""
  /\ calls' = Called("loadSavedState")
  /\ UNCHANGED <<localStorage, beforeSave>>
  /\ UNCHANGED outsideSync

\* the page, used through its buttons and the keyboard shortcut
NextSync ==
  \/ \E source \in UserSources, input \in DocumentInputs : SyncDocument(source, input)
  \/ \E outcome \in Outcomes, data \in SyncResponses, now \in SyncTimes, stored \in BOOLEAN :
       SyncDocumentSettle(outcome, data, now, stored)
  \/ UpdateGoogleDrive("button")
  \/ \E outcome \in Outcomes, now \in DriveTimes, stored \in BOOLEAN :
       UpdateGoogleDriveSettle(outcome, now, stored)
  \/ \E stored \in BOOLEAN : HandleBeforeUnload(stored)
  \/ ClearData
  \/ NewPage

SpecSync == InitSync /\ [][NextSync]_vars

\* the page, with calls of the two methods that do not come through the page as well
NextSyncCalls ==
  \/ NextSync
  \/ \E input \in DocumentInputs : SyncDocument("call", input)
  \/ UpdateGoogleDrive("call")

SpecSyncCalls == InitSync /\ [][NextSyncCalls]_vars

\* the page where every request settles: the browser resolves or rejects each fetch
SpecSyncFair ==
  /\ InitSync
  /\ [][NextSync]_vars
  /\ WF_vars(\E outcome \in Outcomes, data \in SyncResponses, now \in SyncTimes,
                stored \in BOOLEAN : SyncDocumentSettle(outcome, data, now, stored))
  /\ WF_vars(\E outcome \in Outcomes, now \in DriveTimes, stored \in BOOLEAN :
                UpdateGoogleDriveSettle(outcome, now, stored))

\* the two serverless functions, one invocation at a time
InitHandlers ==
  /\ options = [targetChunkSize |-> DefaultTargetChunkSize,
                maxChunkSize |-> DefaultMaxChunkSize, overlapSize |-> DefaultOverlapSize]
  /\ elements = <<>>
  /\ processor = constructor(options)
  /\ imagesDir \in ImagesDirs
  /\ runs = <<>>
  /\ grouped = [called |-> FALSE, error |-> "none", value |-> <<>>]
  /\ included = [called |-> FALSE, position |-> "none", value |-> FALSE]
  /\ inserted = NotInserted
  /\ SyncIdle
  /\ docsSync = DocsSyncIdle
  /\ env \in [GITHUB_TOKEN : TokenValues, GITHUB_REPO : RepoValues]
  /\ remote \in Remotes
  /\ chunksFile \in ChunksFiles
  /\ requests = <<>>
  /\ run = Idle
  /\ lastUpload = NoUpload

CanStart == run.pc \in {"idle", "done"} /\ run.count < MaxInvocations

Answer(endpoint, status) ==
  [endpoint |-> endpoint, pc |-> "done", status |-> status, uploads |-> <<>>,
   done |-> 0, count |-> run.count + 1, steps |-> <<>>, before |-> remote]

\* variant: only the token is looked at
CredentialsMissing_TokenOnly(e) == Falsy(e.GITHUB_TOKEN)

\* !GITHUB_TOKEN || !GITHUB_REPO
CredentialsMissing(e) == Falsy(e.GITHUB_TOKEN) \/ Falsy(e.GITHUB_REPO)

\* variant: a PUT that is not ok does not throw
AfterUpload_NoThrow(r, accepted) ==
  IF r.done + 1 = Len(r.uploads)
  THEN [r EXCEPT !.pc = "done", !.status = 200, !.done = @ + 1,
                 !.steps = Append(@, "upload")]
  ELSE [r EXCEPT !.done = @ + 1, !.steps = Append(@, "upload")]

\* the handler after one uploadFileToGitHub call: the throw of a PUT that is not ok
\* goes to the catch of the handler (500); after the last upload the handler
\* answers 200
AfterUpload(r, accepted) ==
  IF ~accepted THEN [r EXCEPT !.pc = "done", !.status = 500,
                              !.steps = Append(@, "upload")]
  ELSE IF r.done + 1 = Len(r.uploads)
  THEN [r EXCEPT !.pc = "done", !.status = 200, !.done = @ + 1,
                 !.steps = Append(@, "upload")]
  ELSE [r EXCEPT !.done = @ + 1, !.steps = Append(@, "upload")]

\* POST /api/semantic-chunking up to the download request (lines 25-40)
SemanticChunkingRequest ==
  /\ CanStart
  /\ requests' = <<>>
  /\ IF CredentialsMissing(env)
     THEN run' = Answer("semantic-chunking", 400)
     ELSE run' = [endpoint |-> "semantic-chunking", pc |-> "download", status |-> 0,
                  uploads |-> <<>>, done |-> 0, count |-> run.count + 1,
                  steps |-> <<>>, before |-> remote]
  /\ UNCHANGED <<env, remote, chunksFile, lastUpload>>
  /\ UNCHANGED <<processorVars, outsideHandlers>>

\* the download settles; then processDocument, the chunks file and the list of
\* uploads (lines 40-72)
DownloadSettles(outcome) ==
  /\ run.pc = "download"
  /\ requests' = Append(requests, [method |-> "GET", repo |-> env.GITHUB_REPO,
                                   path |-> "GTI_Data_Base_and_SOP.docx"])
  /\ IF outcome # "ok"
     THEN /\ run' = [run EXCEPT !.pc = "done", !.status = 404,
                                !.steps = Append(@, "download " \o outcome)]
          /\ UNCHANGED <<processor, imagesDir, runs, chunksFile>>
     ELSE LET chunks == createExampleChunksWithImagePlaceholders
              counter == NextImageCounter(constructor(options).imageCounter)
              dir == createExampleImages(imagesDir)
          IN /\ processor' = [constructor(options) EXCEPT !.imageCounter = counter]
             /\ imagesDir' = dir
             /\ runs' = Append(runs, [counterBefore |-> constructor(options).imageCounter,
                                      result |-> processResult(chunks, counter)])
             /\ chunksFile' = [chunks |-> chunks, data |-> ChunksJson(chunks)]
             /\ run' = [run EXCEPT !.pc = "upload",
                                   !.uploads = uploadResultsToGitHub(chunks, dir),
                                   !.steps = @ \o <<"download ok", "process">>]
  /\ UNCHANGED <<env, remote, lastUpload>>
  /\ UNCHANGED <<options, elements, grouped, included, outsideHandlers>>

\* POST /api/upload-chunks-github up to its first upload (lines 24-58)
UploadChunksRequest ==
  /\ CanStart
  /\ requests' = <<>>
  /\ LET GITHUB_TOKEN == OrElse(env.GITHUB_TOKEN, DefaultToken)
     IN IF Falsy(GITHUB_TOKEN) \/ GITHUB_TOKEN = DefaultToken
        THEN run' = Answer("upload-chunks-github", 400)
        ELSE IF chunksFile = NoFile
        THEN run' = Answer("upload-chunks-github", 404)
        ELSE run' = [endpoint |-> "upload-chunks-github", pc |-> "upload", status |-> 0,
                     uploads |-> uploadChunksToGitHub(chunksFile.data, chunksFile.chunks,
                                                      imagesDir),
                     done |-> 0, count |-> run.count + 1, steps |-> <<>>,
                     before |-> remote]
  /\ UNCHANGED <<env, remote, chunksFile, lastUpload>>
  /\ UNCHANGED <<processorVars, outsideHandlers>>

\* one uploadFileToGitHub call of the running handler: the GET for the sha, the PUT,
\* and what follows it (the next upload, the 200 after the last one, or the 500)
UploadFile(getFails, available) ==
  /\ run.pc = "upload"
  /\ LET upload == run.uploads[run.done + 1]
         repo == IF run.endpoint = "upload-chunks-github"
                 THEN OrElse(env.GITHUB_REPO, DefaultRepo) ELSE env.GITHUB_REPO
         existed == repo = TheRepo /\ Exists(remote, upload.path)
         current == IF existed THEN Sha(ContentAt(remote, upload.path)) ELSE NoSha
         got == IF getFails THEN "failed" ELSE IF existed THEN "ok" ELSE "not_found"
         sha == ShaToSend(got, current)
         sent == Base64(upload.content)
         accepted == available /\ Accepts(remote, env.GITHUB_TOKEN, repo, upload.path, sha)
     IN /\ requests' = requests \o
             <<[method |-> "GET", repo |-> repo, path |-> upload.path],
               [method |-> "PUT", repo |-> repo, path |-> upload.path,
                accepted |-> accepted]>>
        /\ lastUpload' = [called |-> TRUE, path |-> upload.path, got |-> got,
                          existed |-> existed, current |-> current, sha |-> sha,
                          accepted |-> accepted]
        /\ remote' = IF accepted
                     THEN {f \in remote : f.path # upload.path}
                          \cup {[path |-> upload.path, content |-> Decoded(sent)]}
                     ELSE remote
        /\ run' = AfterUpload(run, accepted)
  /\ UNCHANGED <<env, chunksFile>>
  /\ UNCHANGED <<processorVars, outsideHandlers>>

NextHandlers ==
  \/ SemanticChunkingRequest
  \/ \E outcome \in {"ok", "not_ok", "threw"} : DownloadSettles(outcome)
  \/ UploadChunksRequest
  \/ \E getFails \in BOOLEAN, available \in BOOLEAN : UploadFile(getFails, available)

SpecHandlers == InitHandlers /\ [][NextHandlers]_vars

\* the google-docs-sync function, one invocation at a time
InitDocsSync ==
  /\ options = [targetChunkSize |-> 0, maxChunkSize |-> 0, overlapSize |-> 0]
  /\ elements = <<>>
  /\ processor = constructor(options)
  /\ imagesDir = {}
  /\ runs = <<>>
  /\ grouped = [called |-> FALSE, error |-> "none", value |-> <<>>]
  /\ included = [called |-> FALSE, position |-> "none", value |-> FALSE]
  /\ inserted = NotInserted
  /\ SyncIdle
  /\ HandlersIdle
  /\ docsSync = DocsSyncIdle

\* res.status(status).json({error, ...}): the run ends
Fails(status, error, raised) ==
  [docsSync EXCEPT !.pc = "done", !.status = status, !.error = error,
                   !.raised = raised]

\* the throw of a Google call outside the inner try blocks
Throws(error) == Fails(OuterCatch(error).status, OuterCatch(error).error, error)

\* POST /api/google-docs-sync up to auth.getClient() (lines 357-434)
DocsSyncRequest(documentId, credentials) ==
  /\ docsSync.pc \in {"idle", "done"}
  /\ LET started == [DocsSyncIdle EXCEPT !.documentId = documentId]
     IN docsSync' =
          IF documentId.value = ""
          THEN [started EXCEPT !.pc = "done", !.status = 400,
                               !.error = "Document ID or name is required"]
          ELSE IF credentials = "json invalid"
          THEN [started EXCEPT !.pc = "done", !.status = 400,
                               !.error = "Invalid Google service account format"]
          ELSE IF credentials = "none"
          THEN [started EXCEPT !.pc = "done", !.status = 400,
                  !.error = "Google service account credentials not configured"]
          ELSE IF credentials = "incomplete"
          THEN [started EXCEPT !.pc = "done", !.status = 400,
                               !.error = "Invalid service account credentials"]
          ELSE [started EXCEPT !.pc = "getClient"]
  /\ UNCHANGED outsideDocsSync

\* auth.getClient() settles (line 434)
GetClient(outcome) ==
  /\ docsSync.pc = "getClient"
  /\ docsSync' =
       IF ~outcome.ok THEN Throws(Thrown(outcome.code, "auth.getClient"))
       ELSE IF LooksLikeName(docsSync.documentId)
       THEN [docsSync EXCEPT !.pc = "findDocumentByName"]
       ELSE [docsSync EXCEPT !.pc = "documents.get"]
  /\ UNCHANGED outsideDocsSync

\* findDocumentByName: drive.files.list settles (lines 439-470)
FindDocumentByName(outcome) ==
  /\ docsSync.pc = "findDocumentByName"
  /\ docsSync' =
       IF ~outcome.ok
       THEN Fails(404, "Document not found by name", Thrown(outcome.code, "drive.files.list"))
       ELSE IF outcome.empty THEN Fails(404, "Document not found by name", NoError)
       ELSE [docsSync EXCEPT !.pc = "documents.get"]
  /\ UNCHANGED outsideDocsSync

\* docs.documents.get settles (lines 495-531)
DocumentsGet(outcome) ==
  /\ docsSync.pc = "documents.get"
  /\ docsSync' =
       IF ~outcome.ok
       THEN LET error == Thrown(outcome.code, "docs.documents.get")
            IN Fails(DocumentCatch(error).status, DocumentCatch(error).error, error)
       ELSE IF outcome.empty THEN Fails(404, "Document not found", NoError)
       ELSE [docsSync EXCEPT !.pc = "files.export"]
  /\ UNCHANGED outsideDocsSync

\* drive.files.export settles (lines 536-546)
FilesExport(outcome) ==
  /\ docsSync.pc = "files.export"
  /\ docsSync' =
       IF ~outcome.ok THEN Throws(Thrown(outcome.code, "drive.files.export"))
       ELSE IF outcome.empty THEN Fails(500, "Failed to export document", NoError)
       ELSE [docsSync EXCEPT !.pc = "files.get"]
  /\ UNCHANGED outsideDocsSync

\* drive.files.get settles (lines 551-554); the response object is built
FilesGet(outcome) ==
  /\ docsSync.pc = "files.get"
  /\ outcome.ok => ~outcome.empty
  /\ docsSync' =
       IF ~outcome.ok THEN Throws(Thrown(outcome.code, "drive.files.get"))
       ELSE [docsSync EXCEPT !.pc = "folder search", !.success = TRUE]
  /\ UNCHANGED outsideDocsSync

\* the response of line 653, with storage.saved
Responds(saved, raised) ==
  [docsSync EXCEPT !.pc = "done", !.status = 200, !.saved = saved, !.raised = raised]

\* the search for the folder GTI_SOP_Downloads settles (lines 598-601)
FolderSearch(outcome) ==
  /\ docsSync.pc = "folder search"
  /\ docsSync' =
       IF ~outcome.ok THEN Responds(FALSE, Thrown(outcome.code, "drive.files.list"))
       ELSE IF outcome.empty THEN [docsSync EXCEPT !.pc = "folder create"]
       ELSE [docsSync EXCEPT !.pc = "file create"]
  /\ UNCHANGED outsideDocsSync

\* the creation of the folder settles (lines 605-611)
FolderCreate(outcome) ==
  /\ docsSync.pc = "folder create"
  /\ outcome.ok => ~outcome.empty
  /\ docsSync' =
       IF ~outcome.ok THEN Responds(FALSE, Thrown(outcome.code, "drive.files.create"))
       ELSE [docsSync EXCEPT !.pc = "file create"]
  /\ UNCHANGED outsideDocsSync

\* the creation of the DOCX file on the drive settles (lines 620-653)
FileCreate(outcome) ==
  /\ docsSync.pc = "file create"
  /\ outcome.ok => ~outcome.empty
  /\ docsSync' =
       IF ~outcome.ok THEN Responds(FALSE, Thrown(outcome.code, "drive.files.create"))
       ELSE Responds(TRUE, NoError)
  /\ UNCHANGED outsideDocsSync

NextDocsSync ==
  \/ \E documentId \in DocumentIds, credentials \in CredentialSources :
       DocsSyncRequest(documentId, credentials)
  \/ \E outcome \in CallOutcomes :
       \/ GetClient(outcome)
       \/ FindDocumentByName(outcome)
       \/ DocumentsGet(outcome)
       \/ FilesExport(outcome)
       \/ FilesGet(outcome)
       \/ FolderSearch(outcome)
       \/ FolderCreate(outcome)
       \/ FileCreate(outcome)

SpecDocsSync == InitDocsSync /\ [][NextDocsSync]_vars

\* ------------------------------------------------------------------ claims

\* the chunks of every processDocument result so far
EmittedChunkLists == {runs[r].result.chunks : r \in 1..Len(runs)}

\* the N values of the placeholder tokens of a text, left to right
PlaceholderNumbers(text) ==
  [i \in 1..Len(PlaceholderMatches(text)) |-> PlaceholderNumber(PlaceholderMatches(text)[i])]

\* C1: in every chunk processDocument emits, the placeholder tokens of the text are as
\* many as the images, and their N values, read left to right, are strictly increasing
\* and are the numbers of the images in order
C1_PlaceholderParity ==
  \A chunks \in EmittedChunkLists : \A c \in 1..Len(chunks) :
    LET ns == PlaceholderNumbers(chunks[c].text)
        images == chunks[c].images
    IN /\ Len(ns) = Len(images)
       /\ \A i \in 1..Len(ns) : i <= Len(images) => ns[i] = images[i].number
       /\ \A i \in 1..Len(ns) - 1 : ns[i] < ns[i + 1]

\* a run has emitted a chunk with several placeholders and images
C1_Witness ==
  \E chunks \in EmittedChunkLists : \E c \in 1..Len(chunks) :
    /\ Len(chunks[c].images) >= 2
    /\ Len(PlaceholderMatches(chunks[c].text)) >= 2

RECURSIVE ImageNumbers(_)
\* the image numbers of a chunk list, in emission order
ImageNumbers(chunks) ==
  IF chunks = <<>> THEN <<>>
  ELSE [i \in 1..Len(Head(chunks).images) |-> Head(chunks).images[i].number]
       \o ImageNumbers(Tail(chunks))

\* C5: in every processDocument result, chunk_id is 0,1,2,... in emission order, the
\* image numbers across the chunks are 1,2,...,m and imageCount = m
C5_SequentialNumbering ==
  \A r \in 1..Len(runs) :
    LET chunks == runs[r].result.chunks
        numbers == ImageNumbers(chunks)
    IN /\ \A c \in 1..Len(chunks) : chunks[c].chunk_id = c - 1
       /\ \A i \in 1..Len(numbers) : numbers[i] = i
       /\ runs[r].result.imageCount = Len(numbers)

\* a run has emitted several chunks that carry images
C5_Witness ==
  \E r \in 1..Len(runs) :
    /\ Len(runs[r].result.chunks) >= 2
    /\ Len(ImageNumbers(runs[r].result.chunks)) >= 2

\* C8: every processDocument run on the same document and options returns the same
\* chunks, imageCount and statistics, on a fresh processor or on a used one
C8_Idempotent ==
  \A r, s \in 1..Len(runs) : runs[r].result = runs[s].result

\* a second run was made on the processor instance that made the first
C8_Witness ==
  /\ Len(runs) >= 2
  /\ runs[1].counterBefore = 1
  /\ runs[2].counterBefore # 1

\* the index of the last paragraph break of a text, 0 when it is one paragraph
LastBreak(text) ==
  IF \E k \in 1..Len(text) : text[k] = "\n\n"
  THEN CHOOSE k \in 1..Len(text) :
         text[k] = "\n\n" /\ \A m \in k + 1..Len(text) : text[m] # "\n\n"
  ELSE 0

\* a chunk that one atomic element (its last paragraph) forced over the ceiling: what
\* came before it was still under the floor, so it could not be flushed
ForcedOversized(text) ==
  LastBreak(text) = 0 \/ TextLength(SubSeq(text, 1, LastBreak(text) - 1)) < minChunkSize

\* C2: for every configuration, every emitted chunk other than the last and other than
\* one forced oversized by a single atomic element has
\* minChunkSize <= text length <= the configured maxChunkSize
C2_SizeInvariant ==
  \A chunks \in EmittedChunkLists : \A c \in 1..Len(chunks) - 1 :
    ~ForcedOversized(chunks[c].text) =>
      /\ minChunkSize <= TextLength(chunks[c].text)
      /\ TextLength(chunks[c].text) <= processor.maxChunkSize

\* the word-aligned suffixes of a text: it starts at a word and runs to the end
WordAlignedSuffixes(text) ==
  { SubSeq(text, k, Len(text)) :
      k \in {j \in 1..Len(text) :
               ~IsSeparator(text[j]) /\ (j = 1 \/ IsSeparator(text[j - 1]))} }

IsPrefix(s, text) == Len(s) <= Len(text) /\ SubSeq(text, 1, Len(s)) = s

C9_EmptyInputNoChunks ==
  /\ \A r \in 1..Len(runs) : elements = <<>> => runs[r].result.chunks = <<>>
  /\ (grouped.called /\ elements = <<>>) => grouped.value = <<>>

\* the ids of the images attached to an element of grouped
AttachedIds(g) == {g.consecutiveImages[k].id : k \in 1..Len(g.consecutiveImages)}

\* C3: an image met before any text is never included: shouldIncludeImage is false
\* for before_chunk, and groupConsecutiveImages attaches the image to no element
C3_BeforeTextNeverIncluded ==
  /\ (included.called /\ included.position = "before_chunk") => ~included.value
  /\ grouped.called =>
       \A i \in 1..Len(elements) :
         (elements[i].type = "image" /\ \A j \in 1..i - 1 : elements[j].type # "text")
           => \A k \in 1..Len(grouped.value) : elements[i].id \notin AttachedIds(grouped.value[k])

\* the most recent text element before position i
LastTextBefore(i) ==
  CHOOSE j \in 1..i - 1 :
    elements[j].type = "text" /\ \A m \in j + 1..i - 1 : elements[m].type # "text"

\* C4: every unlabeled image that has a text element before it is attached to the most
\* recent such text element and to no other element, and the images attached to one
\* element are in source order
C4_RunsAttachedToPrecedingText ==
  grouped.called =>
    /\ \A i \in 1..Len(elements) :
         (/\ elements[i].type = "image" /\ ~elements[i].hasLabel
          /\ \E j \in 1..i - 1 : elements[j].type = "text")
           => \E k \in 1..Len(grouped.value) :
                /\ grouped.value[k].id = elements[LastTextBefore(i)].id
                /\ grouped.value[k].type = "text"
                /\ elements[i].id \in AttachedIds(grouped.value[k])
                /\ \A m \in 1..Len(grouped.value) :
                     m # k => elements[i].id \notin AttachedIds(grouped.value[m])
    /\ \A k \in 1..Len(grouped.value) :
         LET images == grouped.value[k].consecutiveImages
         IN \A a \in 1..Len(images) - 1 : images[a].id < images[a + 1].id

\* C10: a stream with an element that is neither text nor image is rejected with a
\* validation failure, and no grouped output is produced for it
C10_InvalidKindRejected ==
  (grouped.called /\ \E i \in 1..Len(elements) : elements[i].type \notin {"text", "image"})
    => (grouped.error # "none" /\ grouped.value = <<>>)

\* the indexes in the text of its placeholder tokens, in order
PlaceholderIndexes(text) ==
  SelectSeq([k \in 1..Len(text) |-> k], LAMBDA k : IsPlaceholder(text[k]))

\* the i-th placeholder follows the one before it with no text between them
FollowsPlaceholder(text, i) ==
  /\ i > 1
  /\ LET indexes == PlaceholderIndexes(text)
     IN \A k \in indexes[i - 1] + 1..indexes[i] - 1 : IsSeparator(text[k])

\* the i-th placeholder is in a run of two or more adjacent placeholders
InPlaceholderRun(text, i) ==
  \/ FollowsPlaceholder(text, i)
  \/ i < Len(PlaceholderMatches(text)) /\ FollowsPlaceholder(text, i + 1)

\* an image record without a caption
IsUnlabeledRecord(image) == image.label = ""

LabeledImageIds(elems) ==
  LET labeled == SelectSeq(elems, LAMBDA e : e.type = "image" /\ e.hasLabel)
  IN [i \in 1..Len(labeled) |-> labeled[i].id]

\* C13: groupConsecutiveImages puts no labeled image in a consecutiveImages list, and
\* the labeled images are top-level elements of the result, in source order
C13_LabeledImageBreaksRun ==
  grouped.called =>
    /\ \A k \in 1..Len(grouped.value) :
         \A a \in 1..Len(grouped.value[k].consecutiveImages) :
           ~grouped.value[k].consecutiveImages[a].hasLabel
    /\ LabeledImageIds(grouped.value) = LabeledImageIds(elements)

\* a stream in which a labeled image follows an attached run of unlabeled images was
\* grouped
C13_Witness ==
  /\ grouped.called
  /\ \E i \in 1..Len(elements) - 2 :
       /\ elements[i].type = "text"
       /\ elements[i + 1].type = "image" /\ ~elements[i + 1].hasLabel
       /\ elements[i + 2].type = "image" /\ elements[i + 2].hasLabel
       /\ \E k \in 1..Len(grouped.value) : grouped.value[k].consecutiveImages # <<>>

\* C14: in every emitted chunk image_markers = image_count = images.length and
\* has_images says whether there are images; in the statistics of the run the
\* placeholder tokens counted over all texts are as many as imageCount
C14_MarkerCounts ==
  \A r \in 1..Len(runs) :
    LET result == runs[r].result
    IN /\ \A c \in 1..Len(result.chunks) :
            LET chunk == result.chunks[c]
            IN /\ chunk.metadata.image_markers = chunk.metadata.image_count
               /\ chunk.metadata.image_count = Len(chunk.images)
               /\ chunk.metadata.has_images = (chunk.images # <<>>)
       /\ result.statistics.imageMarkers = result.imageCount

\* a run has returned chunks with images and a positive marker count
C14_Witness ==
  \E r \in 1..Len(runs) :
    /\ runs[r].result.statistics.imageMarkers > 0
    /\ \E c \in 1..Len(runs[r].result.chunks) : runs[r].result.chunks[c].metadata.has_images

NoDuplicates(list) == \A a, b \in 1..Len(list) : list[a] = list[b] => a = b

Members(list) == {list[a] : a \in 1..Len(list)}

\* C15: in every emitted chunk the state, section and topic of each image are in
\* metadata.states, .sections and .topics, these lists have no duplicate, and the
\* states and sections are of the fixed enumerations
C15_MetadataCoversImages ==
  \A chunks \in EmittedChunkLists : \A c \in 1..Len(chunks) :
    LET meta == chunks[c].metadata
    IN /\ \A i \in 1..Len(chunks[c].images) :
            /\ chunks[c].images[i].state \in Members(meta.states)
            /\ chunks[c].images[i].section \in Members(meta.sections)
            /\ chunks[c].images[i].topic \in Members(meta.topics)
            /\ chunks[c].images[i].state \in StateCodes
            /\ chunks[c].images[i].section \in SectionCodes
       /\ NoDuplicates(meta.states) /\ NoDuplicates(meta.sections)
       /\ NoDuplicates(meta.topics)
       /\ Members(meta.states) \subseteq StateCodes
       /\ Members(meta.sections) \subseteq SectionCodes

\* a chunk was emitted whose images carry two different sections
C15_Witness ==
  \E chunks \in EmittedChunkLists : \E c \in 1..Len(chunks) :
    \E i, j \in 1..Len(chunks[c].images) :
      chunks[c].images[i].section # chunks[c].images[j].section

\* C17: insertImagePlaceholder returns the text it was given, unchanged, followed by
\* what it adds, in which there is exactly one token, [IMAGE_PLACEHOLDER_N]; the token
\* is not before all the text of a non-empty text
C17_PlaceholderAppended ==
  inserted.called =>
    /\ Len(PlaceholderMatches(inserted.value)) = 1
    /\ Placeholder(inserted.imageNumber) \in Members(inserted.value)
    /\ IsPrefix(inserted.text, inserted.value)
    /\ inserted.text # <<>> => ~IsPlaceholder(inserted.value[1])

\* the fields of a loaded instance are those the instance had at the save
RoundTrip ==
  /\ sync.lastSyncTime = beforeSave.lastSyncTime
  /\ sync.lastDriveUpdate = beforeSave.lastDriveUpdate
  /\ sync.documentInfo = beforeSave.documentInfo
  /\ sync.driveFileInfo = beforeSave.driveFileInfo
  /\ (sync.docxData = Null) = (beforeSave.docxData = Null)
  /\ Get(sync.docxData, "size") = Get(beforeSave.docxData, "size")
  /\ Get(sync.docxData, "mimeType") = Get(beforeSave.docxData, "mimeType")

Puts == SelectSeq(requests, LAMBDA r : r.method = "PUT")

\* C16: after a semantic-chunking run answered 200, for every image of the published
\* chunks a file named images[].filename is in the local images directory and an
\* upload of this run was accepted at images[].path
C16_ImagesResolvable ==
  (run.endpoint = "semantic-chunking" /\ run.status = 200) =>
    \A c \in 1..Len(chunksFile.chunks) : \A i \in 1..Len(chunksFile.chunks[c].images) :
      LET image == chunksFile.chunks[c].images[i]
      IN /\ \E f \in imagesDir : f.name = image.filename
         /\ \E k \in 1..Len(Puts) : Puts[k].path = image.path /\ Puts[k].accepted
         /\ Exists(remote, image.path)

\* an environment variable is configured when it is set to a non-empty value
Configured(x) == ~Falsy(x)

\* C19: when GITHUB_TOKEN or GITHUB_REPO is not configured, the upload-chunks-github
\* handler answers with a configuration error (400) and issues no request to GitHub
C19_BothCredentialsRequired ==
  (/\ run.endpoint = "upload-chunks-github"
   /\ ~Configured(env.GITHUB_TOKEN) \/ ~Configured(env.GITHUB_REPO))
    => (requests = <<>> /\ (run.pc = "done" => run.status = 400))

\* a handler run has ended after it began to upload
RunEnded == run.pc = "done" /\ run.uploads # <<>>

\* the run's output is what the repository holds at every target path
RemoteIsOutput ==
  \A u \in 1..Len(run.uploads) :
    /\ Exists(remote, run.uploads[u].path)
    /\ ContentAt(remote, run.uploads[u].path) = run.uploads[u].content

C21_DownloadProcessUpload ==
  run.endpoint = "semantic-chunking" =>
    /\ \A s \in 1..Len(run.steps) :
         /\ run.steps[s] = "process" => (s = 2 /\ run.steps[1] = "download ok")
         /\ run.steps[s] = "upload" =>
              (s > 2 /\ run.steps[1] = "download ok" /\ run.steps[2] = "process")
    /\ Puts # <<>> =>
         /\ Configured(env.GITHUB_TOKEN) /\ Configured(env.GITHUB_REPO)
         /\ requests[1].method = "GET" /\ requests[1].path = "GTI_Data_Base_and_SOP.docx"
         /\ Len(run.steps) > 2 /\ run.steps[1] = "download ok"
    /\ run.status \in {400, 404} => (remote = run.before /\ Puts = <<>>)

\* a semantic-chunking run was answered 200 after its uploads changed the repository
C21_Witness ==
  /\ run.endpoint = "semantic-chunking" /\ run.status = 200
  /\ Puts # <<>> /\ remote # run.before

\* the paths the semantic-chunking handler is to upload to, in order
ExpectedPaths ==
  <<"semantic_chunks.json">>
  \o [i \in 1..Len(ImageFiles(imagesDir)) |-> "images/" \o ImageFiles(imagesDir)[i].name]
  \o <<"semantic_README.md">>

\* C23: the semantic-chunking handler answers 200 only after the chunks JSON, every
\* image file and the README were accepted by GitHub, in this order; a rejected
\* upload is the last one of the run, and the run is answered 500
C23_SuccessOnlyIfAllAccepted ==
  run.endpoint = "semantic-chunking" =>
    /\ run.status = 200 =>
         /\ [k \in 1..Len(Puts) |-> Puts[k].path] = ExpectedPaths
         /\ \A k \in 1..Len(Puts) : Puts[k].accepted
    /\ \A k \in 1..Len(Puts) :
         ~Puts[k].accepted => (k = Len(Puts) /\ run.pc = "done" /\ run.status = 500)

\* a semantic-chunking run ended with 500 at a rejected upload that was not the first
C23_Witness ==
  /\ run.endpoint = "semantic-chunking" /\ run.status = 500
  /\ Len(Puts) > 1 /\ ~Puts[Len(Puts)].accepted
  /\ Len(Puts) < Len(run.uploads)

\* the message the handler has for an upstream status
SpecificMessages(code) ==
  CASE code = 403 -> {"Access denied", "Access denied to document"}
    [] code = 404 -> {"Document not found", "Document not found by name"}
    [] code = 429 -> {"Rate limit exceeded"}
    [] code = 401 -> {"Authentication failed"}
    [] OTHER -> {}

\* C22: when a Google call raised an error, the response has the status of the error
\* and the message for it if the code is 401, 403, 404 or 429, has status 500 for every
\* other error, and is never a success response
C22_UpstreamStatusKept ==
  (docsSync.pc = "done" /\ docsSync.raised.thrown) =>
    /\ docsSync.raised.code \in {401, 403, 404, 429} =>
         /\ docsSync.status = docsSync.raised.code
         /\ docsSync.error \in SpecificMessages(docsSync.raised.code)
    /\ docsSync.raised.code \notin {401, 403, 404, 429} => docsSync.status = 500
    /\ docsSync.status # 200

\* C24: at most one sync request of an instance is in flight, and a call of
\* syncDocument made while isProcessing is true issues no request and changes
\* neither the instance nor the stored state nor the buttons
C24_OneSyncInFlight ==
  /\ [](inFlight.sync <= 1)
  /\ [][(sync.isProcessing /\ calls'[2] = "syncDocument")
          => /\ sync' = sync
             /\ inFlight' = inFlight
             /\ localStorage' = localStorage
             /\ buttons' = buttons]_vars

\* a call of syncDocument was turned away while a sync request was in flight
C24_Witness ==
  /\ sync.isProcessing
  /\ inFlight.sync = 1
  /\ calls[2] = "syncDocument"
  /\ notification = "Sync already in progress..."

\* C25: a flag is true only while the request of its method has not settled, and
\* every request that settles, with any outcome, leaves its flag false; where every
\* request settles, a flag that is true becomes false
C25_FlagsReset ==
  /\ [](sync.isProcessing <=> inFlight.sync > 0)
  /\ [](sync.isDriveUpdating <=> inFlight.drive > 0)
  /\ [][inFlight'.sync < inFlight.sync => ~sync'.isProcessing]_vars
  /\ [][inFlight'.drive < inFlight.drive => ~sync'.isDriveUpdating]_vars
  /\ (sync.isProcessing ~> ~sync.isProcessing)
  /\ (sync.isDriveUpdating ~> ~sync.isDriveUpdating)

\* a sync request has failed and a sync can be started again from the button
C25_Witness ==
  /\ notification = "Sync failed"
  /\ calls[2] = "syncDocument settled"
  /\ ~sync.isProcessing
  /\ ~buttons.sync

\* C26: isProcessing and isDriveUpdating are never both true
C26_NeverBothInFlight == ~(sync.isProcessing /\ sync.isDriveUpdating)

====
